---------------------------- MODULE Spec2Model ----------------------------
(***************************************************************************)
(* Model of app/src/lib/git/diff.ts: convertDiff, getImageDiff,            *)
(* formatLineEnding, getMediaType, getBlobImage, getWorkingDirectoryImage. *)
(*                                                                         *)
(* A JavaScript string is a sequence of one-character strings.  An async   *)
(* function runs atomically from one await to the next, so convertDiff is  *)
(* one action for its synchronous prefix and one action for each await of  *)
(* a read that settles.                                                    *)
(***************************************************************************)
EXTENDS Integers, Sequences, FiniteSets, TLC

\* undefined, as a record so that it compares with Image and result records
None == [kind |-> "undefined"]

CR == "\r"
LF == "\n"

--------------------------------------------------------------------------
\* String helpers (String.prototype.endsWith, String.prototype.indexOf)

endsWith(text, ch) == Len(text) > 0 /\ text[Len(text)] = ch

\* text.indexOf(pat) > -1
Contains(text, pat) ==
  \E i \in 1..(Len(text) + 1) :
    /\ i + Len(pat) - 1 <= Len(text)
    /\ \A k \in 1..Len(pat) : text[i + k - 1] = pat[k]

Subproject == <<"S", "u", "b", "p", "r", "o", "j", "e", "c", "t">>

--------------------------------------------------------------------------
\* Path.extname of Node's posix path module, as called at lines 137, 204, 214

\* index of the last non-slash character, 0 when there is none
RECURSIVE LastNonSlash(_, _)
LastNonSlash(path, i) ==
  IF i = 0 THEN 0
  ELSE IF path[i] # "/" THEN i ELSE LastNonSlash(path, i - 1)

\* index of the first character of the last path component ending at end
RECURSIVE StartPart(_, _)
StartPart(path, i) ==
  IF i = 0 THEN 1
  ELSE IF path[i] = "/" THEN i + 1 ELSE StartPart(path, i - 1)

\* index of the last "." of base, 0 when there is none
RECURSIVE LastDot(_, _)
LastDot(base, i) ==
  IF i = 0 THEN 0
  ELSE IF base[i] = "." THEN i ELSE LastDot(base, i - 1)

extnameLower(path) ==
  LET lower(c) == CASE c = "P" -> "p" [] c = "N" -> "n" [] c = "G" -> "g"
                    [] OTHER -> c
      end   == LastNonSlash(path, Len(path))
      base  == IF end = 0 THEN <<>>
               ELSE SubSeq(path, StartPart(path, end), end)
      d     == LastDot(base, Len(base))
  IN  IF d = 0 \/ d = 1 \/ base = <<".", ".">> THEN <<>>
      ELSE [i \in 1..(Len(base) - d + 1) |-> lower(base[d + i - 1])]

extname(path) ==
  LET end   == LastNonSlash(path, Len(path))
      base  == IF end = 0 THEN <<>>
               ELSE SubSeq(path, StartPart(path, end), end)
      d     == LastDot(base, Len(base))
  IN  IF d = 0 \/ d = 1 \/ base = <<".", ".">> THEN <<>>
      ELSE SubSeq(base, d, Len(base))

imageFileExtensions ==
  { <<".", "p", "n", "g">>, <<".", "j", "p", "g">>,
    <<".", "j", "p", "e", "g">>, <<".", "g", "i", "f">> }

getMediaType(extension) ==
  IF extension = <<".", "p", "n", "g">> THEN "image/png"
  ELSE IF extension = <<".", "j", "p", "g">>
          \/ extension = <<".", "j", "p", "e", "g">> THEN "image/jpg"
  ELSE IF extension = <<".", "g", "i", "f">> THEN "image/gif"
  ELSE "text/plain"

--------------------------------------------------------------------------
\* Text normalisation

formatLineEndingBare(text) ==
  IF endsWith(text, LF) THEN text
  ELSE IF endsWith(text, CR) THEN text
  ELSE text \o <<CR, LF>>

formatLineEnding(text) ==
  IF endsWith(text, LF) THEN text
  ELSE IF endsWith(text, CR) THEN text \o <<LF>>
  ELSE text \o <<CR, LF>>

\* hunk.lines.forEach(l => diffText += formatLineEnding(l.text))
RECURSIVE HunkText(_)
HunkText(lines) ==
  IF lines = <<>> THEN <<>>
  ELSE formatLineEnding(Head(lines)) \o HunkText(Tail(lines))

\* diff.hunks.forEach(hunk => ...)
RECURSIVE DiffText(_)
DiffText(hunks) ==
  IF hunks = <<>> THEN <<>>
  ELSE HunkText(Head(hunks)) \o DiffText(Tail(hunks))

--------------------------------------------------------------------------
\* Inputs

\* Bounds of the raw diffs of SpecText: hunks per diff, lines per diff
MaxHunks == 2
MaxLines == 3

FileStatus == {"New", "Modified", "Deleted", "Renamed", "Conflicted"}

\* file.path values; NoPath is a falsy file.oldPath (undefined)
NoPath == <<>>
Paths ==
  { <<"a", ".", "p", "n", "g">>,
    <<"a", ".", "j", "p", "g">>,
    <<"a", ".", "j", "p", "e", "g">>,
    <<"d", ".", "b", "/", "a", ".", "g", "i", "f">>,
    <<"a", ".", "P", "N", "G">>,
    <<"a", ".", "b", "m", "p">>,
    <<"a", ".", "p", "n", "g", ".", "t", "x", "t">>,
    <<"d", ".", "p", "n", "g", "/", "a">>,
    <<".", "p", "n", "g">>,
    <<"p", "n", "g">> }
OldPaths ==
  { <<"o", ".", "g", "i", "f">>, <<"o", ".", "t", "x", "t">> }

\* FileChange { path, status, oldPath } and its subclass
\* WorkingDirectoryFileChange (wd = file instanceof WorkingDirectoryFileChange).
\* oldPath is set only for a rename; a file in a commit is never Conflicted.
FileChanges ==
  { f \in [path : Paths, status : FileStatus,
           oldPath : OldPaths \cup {NoPath}, wd : BOOLEAN] :
      /\ f.oldPath # NoPath => f.status = "Renamed"
      /\ f.status = "Conflicted" => f.wd }

HEAD == <<"HEAD">>
RootCommit == <<"root">>
Commitishes == { HEAD, <<"abc">>, RootCommit }

\* `${commitish}^`
Parent(commitish) == commitish \o <<"^">>

\* line texts of the raw diffs
LineTexts ==
  { <<>>,
    <<"S", "u", "b", "p", "r", "o", "j", "e", "c">>,
    <<"b", CR>>,
    <<"c", LF>>,
    Subproject,
    <<"-">> \o Subproject \o <<" ", "1", LF>> }

RECURSIVE SeqsOfLen(_, _)
SeqsOfLen(S, n) ==
  IF n = 0 THEN {<<>>}
  ELSE { <<x>> \o r : x \in S, r \in SeqsOfLen(S, n - 1) }

SeqsUpTo(S, n) == UNION { SeqsOfLen(S, k) : k \in 0..n }

\* every list of at most h hunks holding at most n lines in all; a hunk is
\* the sequence of its lines' texts, and may be empty
RECURSIVE HunkLists(_, _)
HunkLists(h, n) ==
  IF h = 0 THEN {<<>>}
  ELSE {<<>>} \cup
       UNION { { <<first>> \o rest : rest \in HunkLists(h - 1, n - Len(first)) } :
               first \in SeqsUpTo(LineTexts, n) }

\* the raw diffs of Spec, whose inputs vary the file and the reads instead
SomeHunkLists ==
  { <<>>,
    << <<>> >>,
    << <<Subproject>> >>,
    << <<<<"b", CR>>, Subproject>> >>,
    << <<<<"c", LF>>>>, <<Subproject>> >> }

Sides == {"current", "previous"}

--------------------------------------------------------------------------
\* State

VARIABLES
  file,       \* the FileChange argument
  diff,       \* the RawDiff argument: [isBinary, hunks]
  commitish,  \* the commitish argument
  readOk,     \* the reader: whether the read of each side succeeds
  pc,         \* where convertDiff / getImageDiff is suspended
  current,    \* getImageDiff's local `current`
  previous,   \* getImageDiff's local `previous`
  reads,      \* the reads issued so far, in order
  pending,    \* the read being awaited, or None
  outcome,    \* how convertDiff's promise settled, or None
  cpc,        \* the concurrent resolver: its position
  creads,     \* the concurrent resolver: the reads it issued
  cpending,   \* the concurrent resolver: its reads in flight
  cimage,     \* the concurrent resolver: the image of each side
  cfailed,    \* the concurrent resolver: whether a read failed
  coutcome    \* the concurrent resolver: how its promise settled

seqVars == <<pc, current, previous, reads, pending, outcome>>
concVars == <<cpc, creads, cpending, cimage, cfailed, coutcome>>
inputVars == <<file, diff, commitish, readOk>>
vars == <<file, diff, commitish, readOk, pc, current, previous, reads,
          pending, outcome, cpc, creads, cpending, cimage, cfailed, coutcome>>

--------------------------------------------------------------------------
\* The reads of getImageDiff

\* file.oldPath || file.path
PreviousPathCurrent(f) == f.path

PreviousPath(f) == IF f.oldPath # NoPath THEN f.oldPath ELSE f.path

\* line 83: the conflicted working directory file returns at once
ReturnsEmpty(f) == f.wd /\ f.status = "Conflicted"

\* lines 88 and 99
ReadsCurrentAlways(f) == TRUE

ReadsCurrent(f) == f.status # "Deleted"

\* lines 92 and 104
ReadsPrevious(f) == f.status # "New"

\* getWorkingDirectoryImage(repository, file) or
\* getBlobImage(repository, file.path, commitish)
CurrentRead(f, c) ==
  IF f.wd
    THEN [side |-> "current", src |-> "workingDirectory",
          path |-> f.path, rev |-> <<>>]
    ELSE [side |-> "current", src |-> "blob", path |-> f.path, rev |-> c]

\* getBlobImage(repository, file.oldPath || file.path, 'HEAD') or
\* getBlobImage(repository, file.oldPath || file.path, `${commitish}^`)
PreviousRead(f, c) ==
  [side |-> "previous", src |-> "blob", path |-> PreviousPath(f),
   rev |-> IF f.wd THEN HEAD ELSE Parent(c)]

\* The reader (getBlobContents, Fs.readFile): a read fails when the reader
\* fails for that side, and always at the parent of a root commit
ReadSucceeds(r) ==
  /\ readOk[r.side]
  /\ ~(r.src = "blob" /\ r.rev = Parent(RootCommit))

\* the bytes the reader returns for a read, and their base64 encoding
Contents(r) == <<r.src, r.rev, r.path>>
Base64(bytes) == [base64 |-> bytes]

\* the Image built by getBlobImage / getWorkingDirectoryImage
ImageOf(r) ==
  [contents |-> Base64(Contents(r)), mediaType |-> getMediaType(extname(r.path))]

Resolved(value) == [type |-> "resolved", value |-> value]
Rejected(error) == [type |-> "rejected", error |-> error]

ImageDiff(prev, cur) == [kind |-> "image", previous |-> prev, current |-> cur]

--------------------------------------------------------------------------
\* convertDiff and getImageDiff, as the code runs them

Deliver(o) ==
  /\ pc' = "done"
  /\ outcome' = o
  /\ pending' = None

Await(r, at) ==
  /\ pc' = at
  /\ reads' = Append(reads, r)
  /\ pending' = r
  /\ outcome' = outcome

\* getImageDiff up to its first await
GetImageDiff ==
  IF ReturnsEmpty(file)
    THEN Deliver(Resolved(ImageDiff(None, None))) /\ UNCHANGED reads
  ELSE IF ReadsCurrent(file)
    THEN Await(CurrentRead(file, commitish), "awaitCurrent")
  ELSE IF ReadsPrevious(file)
    THEN Await(PreviousRead(file, commitish), "awaitPrevious")
  ELSE Deliver(Resolved(ImageDiff(None, None))) /\ UNCHANGED reads

\* line 153: diff.hunks[0].lines[0].text.indexOf('Subproject') > -1
\* (lines[0] of a hunk without lines is undefined: reading .text throws)
FirstLineThrows(hunks) == Len(hunks) > 0 /\ Len(hunks[1]) = 0

LooksLikeSubmodule(hunks) ==
  Len(hunks) > 0 /\ Len(hunks[1]) > 0 /\ Contains(hunks[1][1], Subproject)

TextDiff(hunks) == [kind |-> "text", text |-> DiffText(hunks), hunks |-> hunks]

\* line 140: imageFileExtensions.has(extension)
IsKnownImageAnyCase(f) == extnameLower(f.path) \in imageFileExtensions

IsKnownImage(f) == extname(f.path) \in imageFileExtensions

\* convertDiff up to its first await
ConvertDiff ==
  /\ pc = "convertDiff"
  /\ IF diff.isBinary
       THEN IF ~IsKnownImage(file)
              THEN Deliver(Resolved([kind |-> "binary"])) /\ UNCHANGED reads
              ELSE GetImageDiff
     ELSE IF FirstLineThrows(diff.hunks)
       THEN Deliver(Rejected("TypeError")) /\ UNCHANGED reads
     ELSE IF LooksLikeSubmodule(diff.hunks)
       THEN Deliver(Resolved([kind |-> "submodule"])) /\ UNCHANGED reads
     ELSE Deliver(Resolved(TextDiff(diff.hunks))) /\ UNCHANGED reads
  /\ UNCHANGED <<current, previous>>
  /\ UNCHANGED inputVars
  /\ UNCHANGED concVars

\* the await of the current side's read settles (lines 89 and 100)
CurrentSettlesEarly ==
  /\ pc = "awaitCurrent"
  /\ IF ReadSucceeds(pending)
       THEN /\ current' = ImageOf(pending)
            /\ IF ReadsPrevious(file)
                 THEN /\ pc' = "awaitPrevious"
                      /\ reads' = Append(reads, PreviousRead(file, commitish))
                      /\ pending' = PreviousRead(file, commitish)
                      /\ outcome' = Resolved(ImageDiff(previous, current'))
                 ELSE /\ Deliver(Resolved(ImageDiff(previous, current')))
                      /\ UNCHANGED reads
       ELSE /\ Deliver(Rejected("ReadFailure"))
            /\ UNCHANGED <<current, reads>>
  /\ UNCHANGED previous
  /\ UNCHANGED inputVars
  /\ UNCHANGED concVars

CurrentSettles ==
  /\ pc = "awaitCurrent"
  /\ IF ReadSucceeds(pending)
       THEN /\ current' = ImageOf(pending)
            /\ IF ReadsPrevious(file)
                 THEN Await(PreviousRead(file, commitish), "awaitPrevious")
                 ELSE /\ Deliver(Resolved(ImageDiff(previous, current')))
                      /\ UNCHANGED reads
       ELSE /\ Deliver(Rejected("ReadFailure"))
            /\ UNCHANGED <<current, reads>>
  /\ UNCHANGED previous
  /\ UNCHANGED inputVars
  /\ UNCHANGED concVars

\* the await of the previous side's read settles (lines 95 and 109)
PreviousSettles ==
  /\ pc = "awaitPrevious"
  /\ IF ReadSucceeds(pending)
       THEN /\ previous' = ImageOf(pending)
            /\ Deliver(Resolved(ImageDiff(previous', current)))
       ELSE /\ Deliver(Rejected("ReadFailure"))
            /\ UNCHANGED previous
  /\ UNCHANGED <<current, reads>>
  /\ UNCHANGED inputVars
  /\ UNCHANGED concVars

InitRun ==
  /\ pc = "convertDiff"
  /\ current = None
  /\ previous = None
  /\ reads = <<>>
  /\ pending = None
  /\ outcome = None

InitConc ==
  /\ cpc = "start"
  /\ creads = {}
  /\ cpending = {}
  /\ cimage = [s \in Sides |-> None]
  /\ cfailed = FALSE
  /\ coutcome = None

Init ==
  /\ file \in FileChanges
  /\ diff \in [isBinary : BOOLEAN, hunks : SomeHunkLists]
  /\ commitish \in Commitishes
  /\ readOk \in [Sides -> BOOLEAN]
  /\ InitRun
  /\ InitConc

Next == ConvertDiff \/ CurrentSettles \/ PreviousSettles

Spec == Init /\ [][Next]_vars

\* every read the reader accepted settles, and the continuation runs
FairSpec == Spec /\ WF_vars(Next)

--------------------------------------------------------------------------
\* Raw diffs of every shape, for the text path of convertDiff

TextFiles ==
  { f \in FileChanges :
      /\ f.path = <<"a", ".", "p", "n", "g">>
      /\ f.status = "Modified" }

InitText ==
  /\ file \in TextFiles
  /\ diff \in [isBinary : {FALSE}, hunks : HunkLists(MaxHunks, MaxLines)]
  /\ commitish = HEAD
  /\ readOk = [s \in Sides |-> TRUE]
  /\ InitRun
  /\ InitConc

NextText == ConvertDiff

SpecText == InitText /\ [][NextText]_vars

--------------------------------------------------------------------------
\* The resolver with its two reads issued together and joined before the
\* result is built, run next to the code's resolver on the same inputs

NeededReads(f, c) ==
  IF ReturnsEmpty(f) THEN {}
  ELSE (IF ReadsCurrent(f) THEN {CurrentRead(f, c)} ELSE {})
       \cup (IF ReadsPrevious(f) THEN {PreviousRead(f, c)} ELSE {})

ConcStart ==
  /\ cpc = "start"
  /\ creads' = NeededReads(file, commitish)
  /\ cpending' = NeededReads(file, commitish)
  /\ cpc' = "joining"
  /\ UNCHANGED <<cimage, cfailed, coutcome>>
  /\ UNCHANGED inputVars
  /\ UNCHANGED seqVars

ConcSettles ==
  /\ cpc = "joining"
  /\ \E r \in cpending :
       /\ cpending' = cpending \ {r}
       /\ IF ReadSucceeds(r)
            THEN /\ cimage' = [cimage EXCEPT ![r.side] = ImageOf(r)]
                 /\ UNCHANGED cfailed
            ELSE /\ cfailed' = TRUE
                 /\ UNCHANGED cimage
  /\ UNCHANGED <<cpc, creads, coutcome>>
  /\ UNCHANGED inputVars
  /\ UNCHANGED seqVars

ConcJoin ==
  /\ cpc = "joining"
  /\ cpending = {}
  /\ cpc' = "done"
  /\ coutcome' = IF cfailed THEN Rejected("ReadFailure")
                 ELSE Resolved(ImageDiff(cimage["previous"], cimage["current"]))
  /\ UNCHANGED <<creads, cpending, cimage, cfailed>>
  /\ UNCHANGED inputVars
  /\ UNCHANGED seqVars

InitImage ==
  /\ file \in { f \in FileChanges : IsKnownImage(f) }
  /\ diff \in [isBinary : {TRUE}, hunks : {<<>>}]
  /\ commitish \in Commitishes
  /\ readOk \in [Sides -> BOOLEAN]
  /\ InitRun
  /\ InitConc

NextConc ==
  \/ ConvertDiff
  \/ CurrentSettles
  \/ PreviousSettles
  \/ ConcStart
  \/ ConcSettles
  \/ ConcJoin

SpecConc == InitImage /\ [][NextConc]_vars

--------------------------------------------------------------------------
\* Vocabulary of the properties

IsResolved(o) == o # None /\ o.type = "resolved"
IsRejected(o) == o # None /\ o.type = "rejected"
IsResult(o, kind) == IsResolved(o) /\ o.value.kind = kind

Range(s) == { s[i] : i \in 1..Len(s) }

\* the paths of Paths whose extension is .png, .jpg, .jpeg or .gif
ImageExtensionPaths ==
  { <<"a", ".", "p", "n", "g">>,
    <<"a", ".", "j", "p", "g">>,
    <<"a", ".", "j", "p", "e", "g">>,
    <<"d", ".", "b", "/", "a", ".", "g", "i", "f">> }

ImageCase == diff.isBinary /\ file.path \in ImageExtensionPaths

\* the read each side needs, when its status lets it exist
SideExists(side) ==
  /\ ~(file.wd /\ file.status = "Conflicted")
  /\ IF side = "current" THEN file.status # "Deleted" ELSE file.status # "New"

SideRead(side) ==
  IF side = "current"
    THEN IF file.wd
           THEN [side |-> "current", src |-> "workingDirectory",
                 path |-> file.path, rev |-> <<>>]
           ELSE [side |-> "current", src |-> "blob",
                 path |-> file.path, rev |-> commitish]
    ELSE [side |-> "previous", src |-> "blob",
          path |-> IF file.oldPath # NoPath THEN file.oldPath ELSE file.path,
          rev |-> IF file.wd THEN <<"HEAD">> ELSE commitish \o <<"^">>]

\* the read of a side fails in the reader
SideFails(side) ==
  \/ ~readOk[side]
  \/ side = "previous" /\ ~file.wd /\ commitish = RootCommit

--------------------------------------------------------------------------
\* C1: whenever a read of the image resolver fails, that side of the result
\* is absent, the other side is resolved from its own read, and convertDiff
\* completes with an Image result (also for the previous side of a root
\* commit).
C1_FailedReadIsAbsentSide ==
  (pc = "done" /\ ImageCase) =>
     /\ IsResult(outcome, "image")
     /\ \A side \in Sides :
          IF SideExists(side) /\ ~SideFails(side)
            THEN /\ outcome.value[side] # None
                 /\ outcome.value[side].contents =
                      [base64 |-> <<SideRead(side).src, SideRead(side).rev,
                                    SideRead(side).path>>]
            ELSE outcome.value[side] = None

\* C2: convertDiff completes without raising on every raw diff that is not
\* binary, also with no hunk and with a first hunk without lines; it returns
\* Text when the submodule rule does not match, and Text with an empty
\* display string for an empty hunk list.
C2_TotalOnNonBinary ==
  (pc = "done" /\ ~diff.isBinary) =>
     /\ IsResolved(outcome)
     /\ ~(\E first \in Range(SubSeq(diff.hunks, 1, 1)) :
            \E line \in Range(SubSeq(first, 1, 1)) :
              Contains(line, Subproject))
          => IsResult(outcome, "text")
     /\ diff.hunks = <<>> => /\ IsResult(outcome, "text")
                             /\ outcome.value.text = <<>>

\* C3: a binary raw diff of a path with extension .png, .jpg, .jpeg or .gif
\* is returned as the Image variant, never as Text, Binary or Submodule,
\* whatever its hunks and the file status.
C3_BinaryImageIsImage ==
  (pc = "done" /\ ImageCase) =>
     /\ IsResolved(outcome)
     /\ outcome.value.kind = "image"
     /\ outcome.value.kind \notin {"text", "binary", "submodule"}

\* C4: a binary raw diff of a path whose extension is not exactly .png,
\* .jpg, .jpeg or .gif (.PNG is not) is returned as Binary without payload,
\* and no read is issued for it.
C4_BinaryOtherIsBinary ==
  (diff.isBinary /\ file.path \notin ImageExtensionPaths) =>
     /\ reads = <<>>
     /\ pending = None
     /\ pc \in {"convertDiff", "done"}
     /\ pc = "done" => outcome = [type |-> "resolved",
                                  value |-> [kind |-> "binary"]]

C4_Witness ==
  /\ pc = "done"
  /\ diff.isBinary
  /\ file.path = <<"a", ".", "P", "N", "G">>
  /\ diff.hunks = << <<Subproject>> >>
  /\ IsResult(outcome, "binary")

\* C5: a non-binary raw diff whose first hunk's first line contains
\* "Subproject" is returned as Submodule; a "Subproject" line anywhere else
\* than the first line of the first hunk yields Text.
C5_SubprojectFirstLine ==
  (pc = "done" /\ ~diff.isBinary) =>
     LET inFirst == /\ Len(diff.hunks) > 0
                    /\ Len(diff.hunks[1]) > 0
                    /\ Contains(diff.hunks[1][1], Subproject)
         flat == { <<h, l>> \in (1..Len(diff.hunks)) \X (1..MaxLines + 1) :
                     l <= Len(diff.hunks[h]) }
         elsewhere == \E p \in flat :
                        /\ p # <<1, 1>>
                        /\ Contains(diff.hunks[p[1]][p[2]], Subproject)
     IN  /\ inFirst => IsResult(outcome, "submodule")
         /\ (~inFirst /\ elsewhere) => IsResult(outcome, "text")

\* C6: the image resolver never reads a side that does not exist for the
\* file status, and that side is absent whatever the reader would return:
\* no previous side for New, no current side for Deleted, and neither side
\* and no read at all for a Conflicted working directory change.
C6_MissingSideNeverRead ==
  LET sidesRead == { reads[i].side : i \in 1..Len(reads) }
      absent(side) ==
        /\ side \notin sidesRead
        /\ IF side = "current" THEN current = None ELSE previous = None
        /\ IsResult(outcome, "image") => outcome.value[side] = None
  IN  /\ file.status = "New" => absent("previous")
      /\ file.status = "Deleted" => absent("current")
      /\ (file.wd /\ file.status = "Conflicted") =>
            /\ reads = <<>>
            /\ absent("previous")
            /\ absent("current")

C6_Witness ==
  /\ pc = "done"
  /\ ImageCase
  /\ file.status = "Deleted"
  /\ readOk["current"]
  /\ IsResult(outcome, "image")
  /\ outcome.value.previous # None
  /\ outcome.value.current = None

\* C7: the previous side is read at the prior path when there is one and at
\* the current path otherwise, the current side at the current path; a
\* working directory change reads previous from the blob at HEAD whatever
\* the revision argument and current from the working directory, a
\* committed change reads previous at <revision>^ and current at <revision>.
C7_ReadTargets ==
  /\ \A i \in 1..Len(reads) :
       LET r == reads[i]
           prior == IF file.oldPath # NoPath THEN file.oldPath ELSE file.path
       IN  IF r.side = "previous"
             THEN /\ r.src = "blob"
                  /\ r.path = prior
                  /\ r.rev = IF file.wd THEN <<"HEAD">>
                             ELSE commitish \o <<"^">>
             ELSE /\ r.side = "current"
                  /\ r.path = file.path
                  /\ IF file.wd THEN r.src = "workingDirectory"
                     ELSE r.src = "blob" /\ r.rev = commitish
  /\ \A i \in 1..Len(reads) :
       (reads[i].side = "previous" /\ previous # None) =>
          previous.contents =
            [base64 |-> <<reads[i].src, reads[i].rev, reads[i].path>>]
  /\ \A i \in 1..Len(reads) :
       (reads[i].side = "current" /\ current # None) =>
          current.contents =
            [base64 |-> <<reads[i].src, reads[i].rev, reads[i].path>>]

C7_Witness ==
  /\ pc = "done"
  /\ file.wd
  /\ file.status = "Renamed"
  /\ file.path = <<"a", ".", "p", "n", "g">>
  /\ file.oldPath = <<"o", ".", "g", "i", "f">>
  /\ commitish = <<"abc">>
  /\ reads = << [side |-> "current", src |-> "workingDirectory",
                 path |-> <<"a", ".", "p", "n", "g">>, rev |-> <<>>],
                [side |-> "previous", src |-> "blob",
                 path |-> <<"o", ".", "g", "i", "f">>, rev |-> <<"HEAD">>] >>
  /\ IsResult(outcome, "image")
  /\ outcome.value.previous # None
  /\ outcome.value.previous.mediaType = "image/gif"
  /\ outcome.value.current # None

\* the lines of all hunks, in hunk order then line order
RECURSIVE Flatten(_)
Flatten(hunks) ==
  IF hunks = <<>> THEN <<>> ELSE Head(hunks) \o Flatten(Tail(hunks))

\* the terminator a line is given
Terminator(text) ==
  CASE text # <<>> /\ text[Len(text)] = LF -> <<>>
    [] text # <<>> /\ text[Len(text)] = CR -> <<LF>>
    [] OTHER -> <<CR, LF>>

RECURSIVE Concat(_)
Concat(texts) ==
  IF texts = <<>> THEN <<>> ELSE Head(texts) \o Concat(Tail(texts))

\* C8: the Text variant's display string is the concatenation, in hunk
\* order then line order, of each line followed by nothing when it ends in
\* \n, by \n when it ends in \r, and by \r\n otherwise; it is never shorter
\* than the lines together, and it is their plain concatenation when every
\* line ends in \n.
C8_TextIsNormalizedLines ==
  IsResult(outcome, "text") =>
    LET lines == Flatten(diff.hunks)
        text  == outcome.value.text
    IN  /\ text = Concat([i \in 1..Len(lines) |->
                            lines[i] \o Terminator(lines[i])])
        /\ Len(text) >= Len(Concat(lines))
        /\ (\A i \in 1..Len(lines) :
              lines[i] # <<>> /\ lines[i][Len(lines[i])] = LF)
             => text = Concat(lines)

C8_Witness ==
  /\ pc = "done"
  /\ diff.hunks = << << <<"b", CR>> >>,
                     << <<"S", "u", "b", "p", "r", "o", "j", "e", "c">>,
                        <<"c", LF>> >> >>
  /\ IsResult(outcome, "text")
  /\ outcome.value.text =
       <<"b", CR, LF,
         "S", "u", "b", "p", "r", "o", "j", "e", "c", CR, LF,
         "c", LF>>

\* C9: the resolver's result and the set of reads it issues are the same
\* whether its two reads run one after the other, current first, or
\* together in any interleaving.
C9_SequentialEqualsConcurrent ==
  (pc = "done" /\ cpc = "done") =>
     /\ outcome = coutcome
     /\ Range(reads) = creads

\* C10: convertDiff delivers one outcome and never a partial one: the
\* outcome is set only when convertDiff is done with no read in flight, an
\* Image result holds the sides as the reads left them, nothing changes
\* once the outcome is delivered, and an outcome is always delivered.
C10_NoPartialResult ==
  /\ [](outcome # None => (pc = "done" /\ pending = None))
  /\ [](IsResult(outcome, "image") =>
          /\ outcome.value.current = current
          /\ outcome.value.previous = previous)
  /\ [][outcome # None => UNCHANGED <<outcome, current, previous, reads>>]_vars
  /\ <>(outcome # None)

C10_Witness ==
  /\ pc = "done"
  /\ pending = None
  /\ Len(reads) = 2
  /\ IsResult(outcome, "image")
  /\ outcome.value.current # None
  /\ outcome.value.previous # None

==========================================================================
